---- MODULE Spec2Model ----
(***************************************************************************)
(* Model of streamlit_app.py: CSV ingestion (load_csv), the SQLite store   *)
(* (init_db, persist_df, load_all_from_db), the error classifier and its   *)
(* runtime override, the rolling windows (window_mask) and the top-N error *)
(* ranking (build_chart_errors_by_tipo), driven by the script's render     *)
(* pass.                                                                   *)
(*                                                                         *)
(* Representation.  A text value is a tuple of one-character strings, so   *)
(* strip(), lower() and the substring tests are computed, not assumed.  A  *)
(* timestamp is an integer number of ticks, TicksPerDay ticks per day; the *)
(* text written by strftime("%Y-%m-%d") is the tuple <<day>>.  A table or  *)
(* DataFrame is a set of records; the uploaded CSV is a sequence of rows.  *)
(***************************************************************************)
EXTENDS Integers, Sequences, FiniteSets, TLC

\* ---------------------------------------------------------------- bounds
MaxRows == 3        \* rows of an uploaded CSV (render pass)
MaxTxnRows == 2     \* rows of an upload in the transaction-level model
MaxDay == 9         \* days 0..MaxDay of the window_mask inputs
MaxDays == 8        \* day_count 1..MaxDays of the window_mask inputs
MaxWinRows == 4     \* records of a window given to the top-N ranking
MaxTopN == 3        \* top_n 1..MaxTopN given to the top-N ranking
TicksPerDay == 2    \* time-of-day resolution of a timestamp

\* ------------------------------------------------------------- text values
UpperChars == <<"A","B","C","D","E","F","G","H","I","J","K","L","M",
                "N","O","P","Q","R","S","T","U","V","W","X","Y","Z">>
LowerChars == <<"a","b","c","d","e","f","g","h","i","j","k","l","m",
                "n","o","p","q","r","s","t","u","v","w","x","y","z">>

lower_char(c) ==
    IF \E i \in 1..Len(UpperChars) : UpperChars[i] = c
    THEN LowerChars[CHOOSE i \in 1..Len(UpperChars) : UpperChars[i] = c]
    ELSE c

\* str.lower()
lower(s) == [i \in 1..Len(s) |-> lower_char(s[i])]

\* str.strip(): drops leading and trailing blanks
strip(s) ==
    LET nb == {i \in 1..Len(s) : s[i] # " "}
    IN  IF nb = {} THEN << >>
        ELSE LET lo == CHOOSE i \in nb : \A j \in nb : i <= j
                 hi == CHOOSE i \in nb : \A j \in nb : i >= j
             IN  SubSeq(s, lo, hi)

\* the Python test  tok in s  on strings
Contains(s, tok) ==
    \E i \in 1..(Len(s) - Len(tok) + 1) : SubSeq(s, i, i + Len(tok) - 1) = tok

t_erro == <<"e","r","r","o">>
t_error == <<"e","r","r","o","r">>
t_integrado_parcial ==
    <<"i","n","t","e","g","r","a","d","o","_","p","a","r","c","i","a","l">>
t_fail == <<"f","a","i","l">>
t_nok == <<"n","o","k">>
t_falha == <<"f","a","l","h","a">>
t_failed == <<"f","a","i","l","e","d">>

\* status values of the uploaded rows
s_erro == t_erro
s_Erro == <<" ","E","r","r","o">>
s_nok == t_nok
s_ok == <<"o","k">>
s_sucesso == <<"s","u","c","e","s","s","o">>

\* header names
c_qtd == <<"q","t","d">>
c_status == <<"s","t","a","t","u","s">>
c_data_integracao ==
    <<"d","a","t","a","_","i","n","t","e","g","r","a","c","a","o">>
c_tipo == <<"t","i","p","o">>
c_QTD == <<" ","Q","T","D">>
c_Status == <<"S","t","a","t","u","s"," ">>
c_TIPO == <<"T","I","P","O">>
c_id == <<"i","d">>

\* ----------------------------------------------------------- date values
NaT == -1

Ts(day, tick) == day * TicksPerDay + tick

\* strftime with the time of day kept in the text
strftime_with_time(ts) == << ts \div TicksPerDay, ts % TicksPerDay >>

\* Timestamp.strftime("%Y-%m-%d")
strftime(ts) == << ts \div TicksPerDay >>

\* pd.to_datetime on a stored text
to_datetime(text) ==
    IF Len(text) = 1 THEN text[1] * TicksPerDay
    ELSE text[1] * TicksPerDay + text[2]

\* Series.dt.date
dt_date(ts) == ts \div TicksPerDay

\* ------------------------------------------------------------ arithmetic
RECURSIVE SumQtd(_)
SumQtd(S) ==
    IF S = {} THEN 0
    ELSE LET r == CHOOSE x \in S : TRUE IN r.qtd + SumQtd(S \ {r})

RECURSIVE SumSeqQtd(_)
SumSeqQtd(rows) ==
    IF Len(rows) = 0 THEN 0 ELSE Head(rows).qtd + SumSeqQtd(Tail(rows))

SelectRows(rows, k) ==
    SelectSeq(rows, LAMBDA r : <<r.status, r.data_integracao, r.tipo>> = k)

SeqUpTo(S, n) == UNION {[1..k -> S] : k \in 0..n}

Key(r) == <<r.status, dt_date(to_datetime(r.data_integracao)), r.tipo>>

\* ---------------------------------------------------------- uploaded file
\* A field of the qtd column as written in the CSV: a number or other text.
Num(n) == [num |-> TRUE, val |-> n]
Junk == [num |-> FALSE, val |-> 0]

RawRow(q, s, d, t) ==
    [qtd |-> q, status |-> s, data_integracao |-> d, tipo |-> t]

\* The rows an uploaded CSV is made of.  Two rows differ only in the time of
\* day, one status carries a blank and a capital, one qtd is not a number,
\* one date does not parse; the days lie on, inside and outside the 7 and 30
\* day windows of day 31.
RawRows ==
    { RawRow(Num(1), s_erro, Ts(31, 0), "A"),
      RawRow(Num(2), s_erro, Ts(31, 1), "A"),
      RawRow(Num(1), s_nok, Ts(25, 0), "B"),
      RawRow(Num(3), s_ok, Ts(24, 1), "A"),
      RawRow(Junk, s_Erro, Ts(1, 0), "B"),
      RawRow(Num(2), s_ok, NaT, "B") }

H_ok == <<c_qtd, c_status, c_data_integracao, c_tipo>>
H_mixed == <<c_id, c_QTD, c_Status, c_data_integracao, c_TIPO>>
H_no_tipo == <<c_qtd, c_status, c_data_integracao>>
H_no_qtd_status == <<c_id, c_data_integracao, c_TIPO>>
H_none == <<c_id>>

GoodHeaders == {H_ok, H_mixed}
BadHeaders == {H_no_tipo, H_no_qtd_status, H_none}

File(h, rs) == [header |-> h, rows |-> rs, none |-> FALSE]

\* the uploader widget holding no file
None == [header |-> << >>, rows |-> << >>, none |-> TRUE]

\* The files a user uploads: the canonical header with up to MaxRows rows,
\* the other headers with at most one row.
Files ==
    {File(H_ok, rs) : rs \in SeqUpTo(RawRows, MaxRows)}
    \cup {File(h, rs) : h \in (GoodHeaders \cup BadHeaders) \ {H_ok},
                        rs \in SeqUpTo(RawRows, 1)}

\* ---------------------------------------------------------------- load_csv
required == {c_qtd, c_status, c_data_integracao, c_tipo}

columns(file) == {lower(strip(file.header[i])) : i \in 1..Len(file.header)}

missing(file) == required \ columns(file)

\* pd.to_numeric(errors="coerce").fillna(0).astype(int)
to_numeric(q) == IF q.num THEN q.val ELSE 0

\* The normalized upload: rows whose date parses, with qtd coerced and the
\* day derived; raises when a required column is missing.
load_csv(file) ==
    IF missing(file) # {}
    THEN [raised |-> TRUE, df |-> << >>]
    ELSE LET kept == SelectSeq(file.rows, LAMBDA r : r.data_integracao # NaT)
         IN  [raised |-> FALSE,
              df |-> [i \in 1..Len(kept) |->
                        [qtd |-> to_numeric(kept[i].qtd),
                         status |-> kept[i].status,
                         data_integracao |-> kept[i].data_integracao,
                         tipo |-> kept[i].tipo,
                         dia |-> dt_date(kept[i].data_integracao)]]]

\* ------------------------------------------------------------------ store
RowKeys(rows) ==
    {<<rows[i].status, rows[i].data_integracao, rows[i].tipo>> : i \in 1..Len(rows)}

\* duplicates dropped keeping the first row of a key, no sum
groupby_first(rows) ==
    { [status |-> k[1], data_integracao |-> k[2], tipo |-> k[3],
       qtd |-> SelectRows(rows, k)[1].qtd] : k \in RowKeys(rows) }

\* duplicates dropped keeping the last row of a key, no sum
groupby_last(rows) ==
    { [status |-> k[1], data_integracao |-> k[2], tipo |-> k[3],
       qtd |-> SelectRows(rows, k)[Len(SelectRows(rows, k))].qtd] :
      k \in RowKeys(rows) }

\* rows.groupby(["status","data_integracao","tipo"])["qtd"].sum()
groupby_sum(rows) ==
    { [status |-> k[1], data_integracao |-> k[2], tipo |-> k[3],
       qtd |-> SumSeqQtd(SelectRows(rows, k))] : k \in RowKeys(rows) }

SameKey(r1, r2) ==
    /\ r1.status = r2.status
    /\ r1.data_integracao = r2.data_integracao
    /\ r1.tipo = r2.tipo

\* PRIMARY KEY (status, data_integracao, tipo) of the table
PrimaryKeyOk(data) ==
    \A r1, r2 \in data : SameKey(r1, r2) => r1 = r2

\* the rows handed to executemany
insert_rows(df_csv) ==
    groupby_sum([i \in 1..Len(df_csv) |->
                   [status |-> df_csv[i].status,
                    data_integracao |-> strftime(df_csv[i].data_integracao),
                    tipo |-> df_csv[i].tipo,
                    qtd |-> df_csv[i].qtd]])

\* executemany and commit of persist_df: the rows data replace the rows of
\* db; a PRIMARY KEY violation raises inside the with block and rolls back
insert_and_commit(db, df_csv, data) ==
    IF PrimaryKeyOk(data)
    THEN [db |-> data, rows_inserted |-> Cardinality(data),
          original_count |-> Len(df_csv),
          deleted |-> Cardinality(db), raised |-> FALSE]
    ELSE [db |-> db, rows_inserted |-> 0, original_count |-> 0,
          deleted |-> 0, raised |-> TRUE]

\* persist_df without the DELETE, adding to the rows already stored
persist_df_append(db, df_csv) ==
    LET data == IF Len(df_csv) = 0 THEN {} ELSE insert_rows(df_csv)
        old(r) == SumQtd({o \in db : SameKey(o, r)})
    IN  [db |-> {o \in db : \A r \in data : ~SameKey(o, r)}
                \cup {[r EXCEPT !.qtd = r.qtd + old(r)] : r \in data},
         rows_inserted |-> Cardinality(data), original_count |-> Len(df_csv),
         deleted |-> 0, raised |-> FALSE]

\* persist_df run to completion on the committed table db: DELETE, grouped
\* INSERT, commit
persist_df(db, df_csv) ==
    IF Len(df_csv) = 0
    THEN [db |-> {}, rows_inserted |-> 0, original_count |-> 0,
          deleted |-> Cardinality(db), raised |-> FALSE]
    ELSE insert_and_commit(db, df_csv, insert_rows(df_csv))

load_all_from_db(db) ==
    { [status |-> r.status,
       data_integracao |-> to_datetime(r.data_integracao),
       tipo |-> r.tipo,
       qtd |-> r.qtd,
       dia |-> dt_date(to_datetime(r.data_integracao))] : r \in db }

\* ------------------------------------------------------- error classifier
\* the default heuristic
is_error_status_default(s) ==
    LET n == lower(strip(s))
    IN  \/ Contains(n, t_erro)
        \/ Contains(n, t_error)
        \/ Contains(n, t_integrado_parcial)
        \/ Contains(n, t_fail)
        \/ n \in {t_nok, t_falha, t_failed}

\* the redefinition made when selected_errors is truthy
is_error_status_selected(selected, s) == lower(strip(s)) \in selected

\* the binding of the name is_error_status after the sidebar section
is_error_status(selected, s) ==
    IF selected # {}
    THEN is_error_status_selected(selected, s)
    ELSE is_error_status_default(s)

\* options of the multiselect
unique_status(d) == {lower(strip(r.status)) : r \in d}

\* default of the multiselect
suggested_errors(d) == {s \in unique_status(d) : is_error_status_default(s)}

\* ------------------------------------------------------------------ windows
NoDay == -1

MaxOf(S) == CHOOSE x \in S : \A y \in S : y <= x
MinOf(S) == CHOOSE x \in S : \A y \in S : y >= x

\* the first day of the dataset taken for the last
max_day_first(d) == IF d # {} THEN MinOf({r.dia : r \in d}) ELSE NoDay

\* df["dia"].max() if not df.empty else None
max_day_of(d) == IF d # {} THEN MaxOf({r.dia : r \in d}) ELSE NoDay

\* the window starting one day early
window_mask_early(d, ref, days) ==
    LET start_day == ref - days
    IN  {r \in d : r.dia >= start_day /\ r.dia <= ref}

window_mask(d, ref, days) ==
    LET start_day == ref - (days - 1)
    IN  {r \in d : r.dia >= start_day /\ r.dia <= ref}

WindowDays == {1, 7, 30}

\* masks and window_dfs of the comparative layout
windows_of(d, ref) == [n \in WindowDays |-> window_mask(d, ref, n)]

\* ------------------------------------------------------------- aggregation
\* A percentage is the exact quotient num/den; 0.0 is 0/1.
Zero == [num |-> 0, den |-> 1]

\* part / total * 100  if total > 0, else 0.0
pct(part, total) ==
    IF total > 0 THEN [num |-> part * 100, den |-> total] ELSE Zero

\* the values of the KPI block, by name
kpi_values(total, erros, sucesso) ==
    [empty |-> FALSE, total |-> total, erros |-> erros, sucesso |-> sucesso,
     sucesso_pct |-> pct(sucesso, total), erros_pct |-> pct(erros, total)]

\* KPI block of one window
kpi(win, selected) ==
    kpi_values(SumQtd(win),
               SumQtd({r \in win : is_error_status(selected, r.status)}),
               SumQtd(win)
                 - SumQtd({r \in win : is_error_status(selected, r.status)}))

\* "Sem dados.": the column of an empty window shows no KPI values
SemDados ==
    [empty |-> TRUE, total |-> 0, erros |-> 0, sucesso |-> 0,
     sucesso_pct |-> Zero, erros_pct |-> Zero]

\* one column of the KPI row
kpi_col(win, selected) == IF win = {} THEN SemDados ELSE kpi(win, selected)

\* df_window.groupby(["dia","status"])["qtd"].sum()
by_status(win) ==
    { [dia |-> k[1], status |-> k[2],
       qtd |-> SumQtd({r \in win : r.dia = k[1] /\ r.status = k[2]})] :
      k \in {<<r.dia, r.status>> : r \in win} }

\* lexical order of the tipo values, the order of a groupby index
TipoOrder == <<"A", "B", "C", "D">>
TipoPos(t) == CHOOSE i \in 1..Len(TipoOrder) : TipoOrder[i] = t

\* df_err.groupby("tipo")["qtd"].sum()
tipo_total(df_err, t) == SumQtd({r \in df_err : r.tipo = t})

\* rank by total alone, equal totals sharing a rank
nlargest_rank_keep_all(df_err, t) ==
    Cardinality({u \in {r.tipo : r \in df_err} :
        tipo_total(df_err, u) > tipo_total(df_err, t)})

\* position of t in the result of nlargest: larger totals first, equal totals
\* in index order (keep="first")
nlargest_rank(df_err, t) ==
    Cardinality({u \in {r.tipo : r \in df_err} :
        \/ tipo_total(df_err, u) > tipo_total(df_err, t)
        \/ /\ tipo_total(df_err, u) = tipo_total(df_err, t)
           /\ TipoPos(u) < TipoPos(t)})

top_tipos(df_err, top_n) ==
    {t \in {r.tipo : r \in df_err} : nlargest_rank(df_err, t) < top_n}

NoChart == [none |-> TRUE, top |-> {}, agg |-> {}]

\* df_top.groupby(["dia","tipo"])["qtd"].sum() of the rows of the kept tipos
chart_of(df_err, top) ==
    [none |-> FALSE,
     top |-> top,
     agg |-> { [dia |-> k[1], tipo |-> k[2],
                qtd |-> SumQtd({r \in df_err : r.dia = k[1] /\ r.tipo = k[2]})] :
               k \in {<<r.dia, r.tipo>> : r \in {x \in df_err : x.tipo \in top}} }]

\* the ranking and the table of the error rows df_err of a window
chart_of_errors(df_err, top_n) ==
    IF df_err = {} THEN NoChart ELSE chart_of(df_err, top_tipos(df_err, top_n))

\* (fig, agg) of build_chart_errors_by_tipo, or (None, None)
build_chart_errors_by_tipo(win, selected, top_n) ==
    chart_of_errors({r \in win : is_error_status(selected, r.status)}, top_n)

DefaultTopN == 8

\* -------------------------------------------------------------- the state
VARIABLES
    store,            \* committed rows of table integracoes
    uploaded,         \* the file held by the uploader widget, or None
    pc,               \* position of the script's run
    persisted,        \* persist_df was called in this run
    rows_deleted,     \* upload section: rows removed by the DELETE
    rerun,            \* upload section: it repeats the one of the run before
    msg,              \* the last message shown
    df,               \* the dataset of this run
    selected_errors,  \* value of the multiselect
    max_day,          \* reference day
    window_dfs,       \* records of the 1, 7 and 30 day windows
    kpis,             \* KPI block of each window
    status_aggs,      \* by (dia, status) sums of each window
    error_figs,       \* build_chart_errors_by_tipo of each window
    t_pc, t_df, t_txn, t_pre, t_obs,       \* persist_df step by step, and a reader
    wm_pc, wm_df, wm_ref, wm_days, wm_out, \* window_mask applied to drawn inputs
    tn_pc, tn_win, tn_n, tn_out,           \* top-N ranking applied to drawn inputs
    kp_pc, kp_rows, kp_sel, kp_win, kp_out \* KPI row of an upload of counted rows

runVars == <<uploaded, pc, persisted, rows_deleted, rerun, msg, df,
             selected_errors, max_day,
             window_dfs, kpis, status_aggs, error_figs>>
txnVars == <<t_pc, t_df, t_txn, t_pre, t_obs>>
wmVars == <<wm_pc, wm_df, wm_ref, wm_days, wm_out>>
tnVars == <<tn_pc, tn_win, tn_n, tn_out>>
kpVars == <<kp_pc, kp_rows, kp_sel, kp_win, kp_out>>
vars == <<store, runVars, txnVars, wmVars, tnVars, kpVars>>

NoWindows == [n \in WindowDays |-> {}]
NoKpis == [n \in WindowDays |-> SemDados]
NoCharts == [n \in WindowDays |-> NoChart]
NoObs == [taken |-> FALSE, rows |-> {}, during |-> "idle"]

InitRun ==
    /\ uploaded = None
    /\ pc = "idle"
    /\ persisted = FALSE
    /\ rows_deleted = 0
    /\ rerun = FALSE
    /\ msg = "none"
    /\ df = {}
    /\ selected_errors = {}
    /\ max_day = NoDay
    /\ window_dfs = NoWindows
    /\ kpis = NoKpis
    /\ status_aggs = NoWindows
    /\ error_figs = NoCharts

InitTxn ==
    /\ t_pc = "idle"
    /\ t_df = << >>
    /\ t_txn = {}
    /\ t_pre = {}
    /\ t_obs = NoObs

InitWm ==
    /\ wm_pc = "off"
    /\ wm_df = {}
    /\ wm_ref = 0
    /\ wm_days = 1
    /\ wm_out = {}

InitTn ==
    /\ tn_pc = "off"
    /\ tn_win = {}
    /\ tn_n = 1
    /\ tn_out = NoChart

InitKp ==
    /\ kp_pc = "off"
    /\ kp_rows = << >>
    /\ kp_sel = {}
    /\ kp_win = NoWindows
    /\ kp_out = NoKpis

\* init_db on a fresh database file: the table exists and is empty
Init == store = {} /\ InitRun /\ InitTxn /\ InitWm /\ InitTn /\ InitKp

\* ---------------------------------------------------------- the script run
\* lines 394-401: persist_df returned p (or raised), the dataset is reloaded
after_persist(p) ==
    IF p.raised
    THEN [db |-> p.db, df |-> {}, persisted |-> TRUE, deleted |-> p.deleted,
          pc |-> "fault", msg |-> "exception"]
    ELSE [db |-> p.db, df |-> load_all_from_db(p.db),
          persisted |-> TRUE, deleted |-> p.deleted, pc |-> "loaded",
          msg |-> IF p.rows_inserted > 0 THEN "success" ELSE "warning"]

\* the branch with a file going on with an empty frame after load_csv failed
with_file_nostop(db, c) == after_persist(persist_df(db, c.df))

\* The branch with a file, load_csv having returned c: a failure is shown
\* and stops the run, otherwise persist_df and the reload follow.
with_file(db, c) ==
    IF c.raised
    THEN [db |-> db, df |-> {}, persisted |-> FALSE, deleted |-> 0,
          pc |-> "stopped_error", msg |-> "error"]
    ELSE after_persist(persist_df(db, c.df))

\* The branch without a file: the stored rows d, and none stops the run.
without_file(db, d) ==
    [db |-> db, df |-> d, persisted |-> FALSE, deleted |-> 0,
     pc |-> IF d = {} THEN "stopped_no_data" ELSE "loaded",
     msg |-> IF d = {} THEN "info" ELSE "success"]

\* the upload section of the script
upload_section(db, file) ==
    IF file.none
    THEN without_file(db, load_all_from_db(db))
    ELSE with_file(db, load_csv(file))

\* A user interaction starts a run of the script: the uploader holds a new
\* file, the same file as in the run before, or none.
UploadSection ==
    /\ pc = "idle"
    /\ \E f \in Files \cup {None} :
        \E u \in {upload_section(store, f)} :
            /\ uploaded' = f
            /\ store' = u.db
            /\ df' = u.df
            /\ persisted' = u.persisted
            /\ rows_deleted' = u.deleted
            /\ pc' = u.pc
            /\ msg' = u.msg
    /\ rerun' = FALSE
    /\ UNCHANGED <<selected_errors, max_day, window_dfs, kpis, status_aggs,
                   error_figs, txnVars, wmVars, tnVars, kpVars>>

\* The sidebar: the user's choice among the statuses of the dataset.
Sidebar ==
    /\ pc = "loaded"
    /\ \E sel \in SUBSET unique_status(df) : selected_errors' = sel
    /\ pc' = "classified"
    /\ rows_deleted' = 0
    /\ rerun' = FALSE
    /\ UNCHANGED <<store, uploaded, persisted, msg, df, max_day, window_dfs,
                   kpis, status_aggs, error_figs, txnVars, wmVars, tnVars, kpVars>>

\* the reference day taken without the test for an empty dataset, whose
\* frame has no column dia
Windowing_unguarded ==
    /\ pc = "classified"
    /\ IF df = {}
       THEN /\ pc' = "fault"
            /\ msg' = "exception"
            /\ UNCHANGED <<max_day, window_dfs>>
       ELSE /\ pc' = "windowed"
            /\ msg' = "reference_day"
            /\ max_day' = max_day_of(df)
            /\ window_dfs' = windows_of(df, max_day_of(df))
    /\ UNCHANGED <<store, uploaded, persisted, rows_deleted, rerun, df,
                   selected_errors, kpis, status_aggs, error_figs,
                   txnVars, wmVars, tnVars, kpVars>>

\* Reference day and the three windows; without a day a warning is shown
\* and the run stops.
Windowing ==
    /\ pc = "classified"
    /\ max_day' = max_day_of(df)
    /\ IF max_day_of(df) = NoDay
       THEN /\ pc' = "stopped_no_dates"
            /\ msg' = "no_dates"
            /\ window_dfs' = window_dfs
       ELSE /\ pc' = "windowed"
            /\ msg' = "reference_day"
            /\ window_dfs' = windows_of(df, max_day_of(df))
    /\ UNCHANGED <<store, uploaded, persisted, rows_deleted, rerun, df,
                   selected_errors, kpis, status_aggs, error_figs,
                   txnVars, wmVars, tnVars, kpVars>>

Kpis ==
    /\ pc = "windowed"
    /\ kpis' = [n \in WindowDays |->
                  kpi_col(window_dfs[n], selected_errors)]
    /\ pc' = "kpis"
    /\ UNCHANGED <<store, uploaded, persisted, rows_deleted, rerun, msg, df,
                   selected_errors, max_day, window_dfs, status_aggs,
                   error_figs, txnVars, wmVars, tnVars, kpVars>>

Charts ==
    /\ pc = "kpis"
    /\ status_aggs' = [n \in WindowDays |-> by_status(window_dfs[n])]
    /\ error_figs' = [n \in WindowDays |->
                        build_chart_errors_by_tipo(window_dfs[n],
                                                   selected_errors, DefaultTopN)]
    /\ pc' = "done"
    /\ UNCHANGED <<store, uploaded, persisted, rows_deleted, rerun, msg, df,
                   selected_errors, max_day, window_dfs, kpis,
                   txnVars, wmVars, tnVars, kpVars>>

Stopped ==
    {"stopped_error", "stopped_no_data", "stopped_no_dates", "done", "fault"}

ResetRun ==
    /\ persisted' = FALSE
    /\ rows_deleted' = 0
    /\ rerun' = FALSE
    /\ msg' = "none"
    /\ df' = {}
    /\ selected_errors' = {}
    /\ max_day' = NoDay
    /\ window_dfs' = NoWindows
    /\ kpis' = NoKpis
    /\ status_aggs' = NoWindows
    /\ error_figs' = NoCharts

\* A widget interaction reruns the script from the top while the uploader
\* still holds the file of the run before.
Rerun ==
    /\ pc \in Stopped
    /\ ~uploaded.none
    /\ \E u \in {upload_section(store, uploaded)} :
           /\ store' = u.db
           /\ df' = u.df
           /\ persisted' = u.persisted
           /\ rows_deleted' = u.deleted
           /\ pc' = u.pc
           /\ msg' = u.msg
    /\ rerun' = TRUE
    /\ selected_errors' = {}
    /\ max_day' = NoDay
    /\ window_dfs' = NoWindows
    /\ kpis' = NoKpis
    /\ status_aggs' = NoWindows
    /\ error_figs' = NoCharts
    /\ UNCHANGED <<uploaded, txnVars, wmVars, tnVars, kpVars>>

\* The run is over and the session with it: the script's variables and the
\* widget's file are gone, the store stays.
EndRun ==
    /\ pc \in Stopped
    /\ pc' = "idle"
    /\ uploaded' = None
    /\ ResetRun
    /\ UNCHANGED <<store, txnVars, wmVars, tnVars, kpVars>>

Next ==
    UploadSection \/ Sidebar \/ Windowing \/ Kpis \/ Charts \/ Rerun \/ EndRun

Spec == Init /\ [][Next]_vars

\* A run of the script goes on by itself after the upload section: the
\* sidebar reads the widget's value and the script then takes the reference
\* day, without waiting for anything.
SpecFair == Spec /\ WF_vars(Sidebar) /\ WF_vars(Windowing)

\* ------------------------------------------- persist_df, statement by statement
\* The writer's connection runs persist_df one statement at a time; the rows
\* it has deleted and inserted are in t_txn, its open transaction, and reach
\* store at the commit.  A reader on another connection selects from store.

\* rows of the normalized uploads
NormRows ==
    UNION {{load_csv(File(H_ok, <<r>>)).df[i] :
              i \in 1..Len(load_csv(File(H_ok, <<r>>)).df)} : r \in RawRows}

TxnUploads == SeqUpTo(NormRows, MaxTxnRows)

\* the DELETE committed on its own, outside a transaction
T_Delete_autocommit ==
    /\ t_pc \in {"idle", "committed", "failed"}
    /\ \E R \in TxnUploads : t_df' = R
    /\ t_pre' = store
    /\ t_txn' = {}
    /\ store' = {}
    /\ t_obs' = NoObs
    /\ t_pc' = "deleted"
    /\ UNCHANGED <<runVars, wmVars, tnVars, kpVars>>

\* persist_df is called: connect, and the DELETE opens the transaction
T_Delete ==
    /\ t_pc \in {"idle", "committed", "failed"}
    /\ \E R \in TxnUploads : t_df' = R
    /\ t_pre' = store
    /\ t_txn' = {}
    /\ t_obs' = NoObs
    /\ t_pc' = "deleted"
    /\ UNCHANGED <<store, runVars, wmVars, tnVars, kpVars>>

\* df_csv.empty: commit and return
T_CommitEmpty ==
    /\ t_pc = "deleted"
    /\ Len(t_df) = 0
    /\ store' = t_txn
    /\ t_pc' = "committed"
    /\ UNCHANGED <<t_df, t_txn, t_pre, t_obs, runVars, wmVars, tnVars, kpVars>>

\* the grouped rows go to executemany
T_Insert ==
    /\ t_pc = "deleted"
    /\ Len(t_df) > 0
    /\ PrimaryKeyOk(t_txn \cup insert_rows(t_df))
    /\ t_txn' = t_txn \cup insert_rows(t_df)
    /\ t_pc' = "inserted"
    /\ UNCHANGED <<store, t_df, t_pre, t_obs, runVars, wmVars, tnVars, kpVars>>

\* conn.commit()
T_Commit ==
    /\ t_pc = "inserted"
    /\ store' = t_txn
    /\ t_pc' = "committed"
    /\ UNCHANGED <<t_df, t_txn, t_pre, t_obs, runVars, wmVars, tnVars, kpVars>>

\* an exception leaves the with block before the commit: rollback
T_Fail ==
    /\ t_pc \in {"deleted", "inserted"}
    /\ t_txn' = {}
    /\ t_pc' = "failed"
    /\ UNCHANGED <<store, t_df, t_pre, t_obs, runVars, wmVars, tnVars, kpVars>>

\* load_all_from_db on another connection
T_Read ==
    /\ t_pc # "idle"
    /\ t_obs' = [taken |-> TRUE, rows |-> load_all_from_db(store),
                 during |-> t_pc]
    /\ UNCHANGED <<store, t_pc, t_df, t_txn, t_pre, runVars, wmVars, tnVars, kpVars>>

NextTxn ==
    T_Delete \/ T_CommitEmpty \/ T_Insert \/ T_Commit \/ T_Fail \/ T_Read

SpecTxn == Init /\ [][NextTxn]_vars

\* (status, calendar day, tipo) of a record of a dataset
UploadKeyOf(r) == <<r.status, r.dia, r.tipo>>

\* --------------------------------------------- window_mask on drawn inputs
Rec(s, day, t, q) ==
    [status |-> s, data_integracao |-> Ts(day, 0), tipo |-> t, qtd |-> q,
     dia |-> day]

\* one record a day, and a second one on the last day
WmRecords ==
    {Rec(s_ok, d, "A", 1) : d \in 0..MaxDay} \cup {Rec(s_erro, MaxDay, "B", 2)}

InitWindow ==
    /\ store = {} /\ InitRun /\ InitTxn /\ InitTn /\ InitKp
    /\ wm_pc = "drawn"
    /\ wm_df \in SUBSET WmRecords
    /\ wm_ref \in 0..MaxDay
    /\ wm_days \in 1..MaxDays
    /\ wm_out = {}

WM_Apply ==
    /\ wm_pc = "drawn"
    /\ wm_out' = window_mask(wm_df, wm_ref, wm_days)
    /\ wm_pc' = "applied"
    /\ UNCHANGED <<store, runVars, txnVars, tnVars, kpVars,
                   wm_df, wm_ref, wm_days>>

NextWindow == WM_Apply

SpecWindow == InitWindow /\ [][NextWindow]_vars

\* ------------------------------- build_chart_errors_by_tipo on drawn inputs
\* records of a window: error rows of tipo A to D on two days, other rows
TnRecords ==
    {Rec(s_erro, 31, t, q) : t \in {"A", "B", "C", "D"}, q \in {10, 30, 50}}
    \cup {Rec(s_erro, 30, t, q) : t \in {"A", "B"}, q \in {10, 30, 50}}
    \cup {Rec(s_ok, 31, "A", q) : q \in {10, 30, 50}}

\* a window gets one more record of a key it does not hold
TN_Add ==
    /\ tn_pc = "off"
    /\ Cardinality(tn_win) < MaxWinRows
    /\ \E r \in TnRecords :
          /\ \A o \in tn_win : UploadKeyOf(o) # UploadKeyOf(r)
          /\ tn_win' = tn_win \cup {r}
    /\ UNCHANGED <<store, runVars, txnVars, wmVars, kpVars,
                   tn_pc, tn_n, tn_out>>

TN_Build ==
    /\ tn_pc = "off"
    /\ \E n \in 1..MaxTopN :
          /\ tn_n' = n
          /\ tn_out' = build_chart_errors_by_tipo(tn_win, {}, n)
    /\ tn_pc' = "built"
    /\ UNCHANGED <<store, runVars, txnVars, wmVars, kpVars, tn_win>>

NextTopN == TN_Add \/ TN_Build

SpecTopN == Init /\ [][NextTopN]_vars

\* ------------------------------------ the KPI row of an upload, from the CSV
\* Rows of a CSV with counts: 10 and 5 on the last day, a count below zero,
\* a count that is not a number, and rows 4 and 21 days before the last day.
KpiRawRows ==
    { RawRow(Num(10), s_sucesso, Ts(31, 0), "X"),
      RawRow(Num(5), s_erro, Ts(31, 0), "X"),
      RawRow(Num(-5), s_erro, Ts(31, 1), "X"),
      RawRow(Num(-5), s_sucesso, Ts(31, 1), "Y"),
      RawRow(Junk, s_erro, Ts(31, 0), "Y"),
      RawRow(Num(5), s_erro, Ts(27, 0), "X"),
      RawRow(Num(10), s_sucesso, Ts(10, 0), "X") }

\* the CSV gets one more row
KP_Add ==
    /\ kp_pc = "off"
    /\ Len(kp_rows) < MaxRows
    /\ \E r \in KpiRawRows : kp_rows' = Append(kp_rows, r)
    /\ UNCHANGED <<store, runVars, txnVars, wmVars, tnVars,
                   kp_pc, kp_sel, kp_win, kp_out>>

\* The script runs with the CSV on a fresh database: upload section,
\* multiselect, reference day, windows and the KPI row.
KP_Run ==
    /\ kp_pc = "off"
    /\ \E u \in {upload_section(store, File(H_ok, kp_rows))} :
          /\ store' = u.db
          /\ IF max_day_of(u.df) = NoDay
             THEN /\ kp_pc' = "stopped_no_dates"
                  /\ UNCHANGED <<kp_sel, kp_win, kp_out>>
             ELSE \E sel \in SUBSET unique_status(u.df) :
                  \E w \in {windows_of(u.df, max_day_of(u.df))} :
                     /\ kp_sel' = sel
                     /\ kp_win' = w
                     /\ kp_out' = [n \in WindowDays |-> kpi_col(w[n], sel)]
                     /\ kp_pc' = "kpis"
    /\ UNCHANGED <<runVars, txnVars, wmVars, tnVars, kp_rows>>

NextKpi == KP_Add \/ KP_Run

SpecKpi == Init /\ [][NextKpi]_vars

\* ================================================================ claims
\* the normalized upload of the run
Upload == load_csv(uploaded).df

\* (status, calendar day, tipo) of a row of the normalized upload
UploadKey(r) == UploadKeyOf(r)

KeysOf(R) == {UploadKey(R[i]) : i \in 1..Len(R)}

\* the normalized upload has two rows of one key that differ in time of day
UploadRepeatsDay ==
    \E R \in {Upload} : \E i, j \in 1..Len(R) :
        /\ UploadKey(R[i]) = UploadKey(R[j])
        /\ R[i].data_integracao # R[j].data_integracao

\* C1: in every reachable state of the store, no two rows of table
\* integracoes have the same (status, calendar day, tipo).
C1_KeyUnique == \A r1, r2 \in store : Key(r1) = Key(r2) => r1 = r2

\* An upload with two rows of one key at different times of day was stored.
C1_Witness ==
    /\ pc = "loaded" /\ persisted
    /\ UploadRepeatsDay
    /\ store # {}

\* C2: after persist_df(R) the reloaded dataset has exactly one row for each
\* (status, day, tipo) of R, its qtd the sum of R's rows of that key, and no
\* other row, whatever was stored before; an R of zero rows leaves the store
\* empty.
C2_ReplaceAll ==
    (pc = "loaded" /\ persisted) =>
        \A R \in {Upload} :
            /\ df = load_all_from_db(store)
            /\ \A k \in KeysOf(R) :
                 \E r \in df :
                    /\ UploadKey(r) = k
                    /\ r.qtd = SumSeqQtd(SelectSeq(R, LAMBDA x : UploadKey(x) = k))
                    /\ \A o \in df : UploadKey(o) = k => o = r
            /\ \A r \in df : UploadKey(r) \in KeysOf(R)
            /\ (Len(R) = 0 => store = {} /\ df = {})

\* Rows were stored before, and the upload that replaced them repeats a key.
C2_Witness ==
    /\ pc = "loaded" /\ persisted
    /\ rows_deleted > 0
    /\ \E R \in {Upload} :
          Cardinality(KeysOf(R)) < Len(R) /\ Cardinality(KeysOf(R)) > 1

\* C3: a second persist_df of the same upload, right after the first, leaves
\* the rows of the store as the first call left them.
C3_Idempotent ==
    [][(rerun' /\ persisted /\ persisted') => store' = store]_vars

\* The script ran again with the same file and persist_df stored rows again.
C3_Witness ==
    /\ rerun /\ persisted /\ pc = "loaded"
    /\ rows_deleted > 0
    /\ \E R \in {Upload} : Cardinality(KeysOf(R)) < Len(R)

\* C5: an upload whose header, trimmed and lower-cased, lacks a required
\* column makes load_csv fail: the error is shown, the run stops, persist_df
\* is not called and the store keeps its rows.
C5_MissingColumns ==
    [][(~uploaded'.none /\ missing(uploaded') # {}) =>
         /\ pc' = "stopped_error"
         /\ msg' = "error"
         /\ ~persisted'
         /\ store' = store]_vars

\* A file lacking qtd and status, its TIPO column accepted, was refused
\* while rows were stored.
C5_Witness ==
    /\ pc = "stopped_error"
    /\ missing(uploaded) = {c_qtd, c_status}
    /\ store # {}

Windowed == pc \in {"windowed", "kpis", "done"}

\* C6: in a run that reaches the windows, the reference day is the largest
\* day of the dataset loaded from the store, every window ends on it, the
\* one day window is not empty and the windows are nested.
C6_ReferenceDay ==
    Windowed =>
        /\ df = load_all_from_db(store)
        /\ \E r \in df : r.dia = max_day
        /\ \A r \in df : r.dia <= max_day
        /\ window_dfs[1] = {r \in df : r.dia = max_day}
        /\ window_dfs[1] # {}
        /\ window_dfs[1] \subseteq window_dfs[7]
        /\ window_dfs[7] \subseteq window_dfs[30]
        /\ window_dfs[30] \subseteq df

\* The three windows of a run differ.
C6_Witness ==
    /\ Windowed
    /\ window_dfs[1] # window_dfs[7]
    /\ window_dfs[7] # window_dfs[30]

\* C8: whenever the user gives a list of error statuses, the run's KPIs,
\* colours and top-N view classify by membership of the trimmed, lower-cased
\* status in that list, the default heuristic playing no part.
C8_OverrideReplaces ==
    pc \in {"kpis", "done"} =>
        \A n \in WindowDays :
            kpis[n].erros =
                SumQtd({r \in window_dfs[n] :
                          lower(strip(r.status)) \in selected_errors})

\* With a list that is not empty the classification is membership in it.
C8_NonEmptyList ==
    (pc \in {"kpis", "done"} /\ selected_errors # {}) =>
        \A n \in WindowDays :
            kpis[n].erros =
                SumQtd({r \in window_dfs[n] :
                          lower(strip(r.status)) \in selected_errors})

\* what a run computes from the stored rows db, the windows w of their
\* dataset and the selection
results_of(db, ref, w, sel) ==
    [store |-> db,
     max_day |-> ref,
     windows |-> w,
     kpis |-> [n \in WindowDays |-> kpi_col(w[n], sel)],
     status |-> [n \in WindowDays |-> by_status(w[n])],
     charts |-> [n \in WindowDays |->
                   build_chart_errors_by_tipo(w[n], sel, DefaultTopN)],
     tops |-> [n \in WindowDays |-> [k \in 1..MaxTopN |->
                   build_chart_errors_by_tipo(w[n], sel, k).top]]]

windows_then(db, d, ref, sel) == results_of(db, ref, windows_of(d, ref), sel)

reload_then(db, d, sel) == windows_then(db, d, max_day_of(d), sel)

\* what a run computes from the stored rows db and the selection sel
stored_then(db, sel) == reload_then(db, load_all_from_db(db), sel)

\* C10: for every permutation of the rows of the normalized upload,
\* persist_df gives the store of this run; and reference day, windows, KPI
\* totals, by (day, status) sums and kept top-N categories of the run are
\* those computed from that store, so they are the same for every
\* permutation.
C10_OrderIndependent ==
    (pc = "done" /\ persisted) =>
        \A R \in {Upload} :
            /\ \A p \in Permutations(1..Len(R)) :
                  persist_df({}, [i \in 1..Len(R) |-> R[p[i]]]).db = store
            /\ stored_then(store, selected_errors)
               = [store |-> store,
                  max_day |-> max_day,
                  windows |-> window_dfs,
                  kpis |-> kpis,
                  status |-> status_aggs,
                  charts |-> error_figs,
                  tops |-> [n \in WindowDays |-> [k \in 1..MaxTopN |->
                              build_chart_errors_by_tipo(window_dfs[n],
                                  selected_errors, k).top]]]

\* A run ended whose upload has rows of several keys, two of them of one key
\* with different qtd, so that its permutations differ.
C10_Witness ==
    /\ pc = "done" /\ persisted
    /\ \E R \in {Upload} :
          /\ \E i, j \in 1..Len(R) :
                /\ UploadKey(R[i]) = UploadKey(R[j])
                /\ R[i].qtd # R[j].qtd
          /\ Cardinality(KeysOf(R)) > 1

\* C4: a reader interleaved with the upload of a frame that is not empty
\* sees all the rows stored before the upload or all the merged rows of the
\* upload, and before the commit the rows stored before; if the write fails
\* after the DELETE and before the commit the store holds the rows stored
\* before.
C4_Atomic ==
    /\ (t_obs.taken /\ Len(t_df) > 0) =>
          t_obs.rows \in {load_all_from_db(t_pre),
                          load_all_from_db(insert_rows(t_df))}
    /\ (t_obs.taken /\ t_obs.during \in {"deleted", "inserted"}) =>
          t_obs.rows = load_all_from_db(t_pre)
    /\ t_pc = "failed" => store = t_pre

\* A reader read between the DELETE and the commit of an upload over stored
\* rows, and the write then failed.
C4_Witness ==
    /\ t_pc = "failed"
    /\ t_obs.taken /\ t_obs.during \in {"deleted", "inserted"}
    /\ t_pre # {}
    /\ Len(t_df) > 0

\* C7: for every dataset, reference day ref and day count n >= 1,
\* window_mask selects the records of the n days ref-(n-1) .. ref and no
\* other; with n = 1 the records of day ref, which are also the records of
\* day ref in the selection of n = 7.
C7_WindowMask ==
    wm_pc = "applied" =>
        /\ wm_out \subseteq wm_df
        /\ \A r \in wm_df :
              r \in wm_out <=> \E k \in 0..(wm_days - 1) : r.dia = wm_ref - k
        /\ wm_days = 1 => wm_out = {r \in wm_df : r.dia = wm_ref}
        /\ wm_days = 7 =>
              {r \in wm_out : r.dia = wm_ref} = window_mask(wm_df, wm_ref, 1)

\* Seven days were selected from a dataset with records on the first day of
\* the window, on the day before it, on the reference day and after it.
C7_Witness ==
    /\ wm_pc = "applied"
    /\ wm_days = 7
    /\ \E r \in wm_out : r.dia = wm_ref - 6
    /\ \E r \in wm_out : r.dia = wm_ref
    /\ \E r \in wm_df \ wm_out : r.dia = wm_ref - 7
    /\ \E r \in wm_df \ wm_out : r.dia > wm_ref

TnErrors == {r \in tn_win : is_error_status_default(r.status)}
TnCats == {r.tipo : r \in TnErrors}
TnTotal(t) == SumQtd({r \in TnErrors : r.tipo = t})
TnScenario ==
    /\ TnCats = {"A", "B", "C", "D"}
    /\ TnTotal("A") = 50 /\ TnTotal("B") = 30
    /\ TnTotal("C") = 30 /\ TnTotal("D") = 10
    /\ tn_n = 2

\* C9: for a window with an error record and N >= 1,
\* build_chart_errors_by_tipo keeps min(N, number of error categories)
\* categories; a kept category has a window total no less than a dropped
\* one, and of two categories of equal total the first in the order of the
\* tipo values is kept; the table holds, for each (day, tipo) of the error
\* records of kept categories, one row with their sum.  With totals A:50,
\* B:30, C:30, D:10 and N = 2, A and one of B, C are kept.
C9_TopN ==
    (tn_pc = "built" /\ TnErrors # {}) =>
        /\ ~tn_out.none
        /\ tn_out.top \subseteq TnCats
        /\ Cardinality(tn_out.top) =
              IF tn_n < Cardinality(TnCats) THEN tn_n ELSE Cardinality(TnCats)
        /\ \A k \in tn_out.top : \A d \in TnCats \ tn_out.top :
              /\ TnTotal(k) >= TnTotal(d)
              /\ TnTotal(k) = TnTotal(d) => TipoPos(k) < TipoPos(d)
        /\ \A a \in tn_out.agg :
              /\ a.tipo \in tn_out.top
              /\ a.qtd = SumQtd({r \in TnErrors :
                                   r.dia = a.dia /\ r.tipo = a.tipo})
              /\ \A b \in tn_out.agg :
                    (b.dia = a.dia /\ b.tipo = a.tipo) => b = a
        /\ \A r \in TnErrors :
              r.tipo \in tn_out.top =>
                  \E a \in tn_out.agg : a.dia = r.dia /\ a.tipo = r.tipo
        /\ TnScenario =>
              /\ "A" \in tn_out.top
              /\ Cardinality(tn_out.top \cap {"B", "C"}) = 1
              /\ "D" \notin tn_out.top

\* The ranking ran on totals A:50, B:30, C:30, D:10 with N = 2 and kept A, B.
C9_Witness ==
    /\ tn_pc = "built"
    /\ TnScenario
    /\ tn_out.top = {"A", "B"}

\* the normalized rows of the CSV of the KPI row
KpUpload == load_csv(File(H_ok, kp_rows)).df

\* the rows of R that lie in the n days ending on day ref
InWindow(R, ref, n) ==
    SelectSeq(R, LAMBDA r : r.dia > ref - n /\ r.dia <= ref)

\* the rows of R classified as error under the selection of the run
ErrorRows(R) ==
    SelectSeq(R, LAMBDA r : is_error_status(kp_sel, r.status))

\* p is the percentage part / total * 100
IsPct(p, part, total) ==
    p.den # 0 /\ p.num * total = part * 100 * p.den

\* the values k of a KPI column follow from the rows W of its window
KpiHolds(k, W) ==
    /\ k.total = SumSeqQtd(W)
    /\ k.erros = SumSeqQtd(ErrorRows(W))
    /\ k.sucesso = k.total - k.erros
    /\ 0 <= k.erros /\ k.erros <= k.total
    /\ k.sucesso_pct.den # 0 /\ k.erros_pct.den # 0
    /\ k.total > 0 =>
          /\ IsPct(k.sucesso_pct, k.sucesso, k.total)
          /\ IsPct(k.erros_pct, k.erros, k.total)
    /\ k.total = 0 => k.sucesso_pct.num = 0 /\ k.erros_pct.num = 0

\* the upload (10, sucesso), (5, erro), (5, erro) of one day and tipo
KpScenario ==
    /\ kp_rows = << RawRow(Num(10), s_sucesso, Ts(31, 0), "X"),
                    RawRow(Num(5), s_erro, Ts(31, 0), "X"),
                    RawRow(Num(5), s_erro, Ts(31, 0), "X") >>
    /\ kp_sel = {}

KpAllWindows ==
    \A R \in {KpUpload} : \A ref \in {MaxOf({R[i].dia : i \in 1..Len(R)})} :
        /\ \A n \in WindowDays :
              /\ kp_out[n].empty <=> Len(InWindow(R, ref, n)) = 0
              /\ ~kp_out[n].empty => KpiHolds(kp_out[n], InWindow(R, ref, n))
        /\ KpScenario =>
              /\ kp_out[1].total = 20
              /\ kp_out[1].erros = 10
              /\ kp_out[1].sucesso = 10

\* C11: in every window with KPI values, total is the sum of qtd over the
\* rows of the upload in the window, erros the sum over those classified as
\* error, sucesso = total - erros and 0 <= erros <= total; the percentages
\* are part / total * 100 when total > 0 and both 0 when total = 0, with no
\* division by zero; the upload (10, sucesso), (5, erro), (5, erro) of one
\* day gives total 20, erros 10, sucesso 10.
C11_KpiValues == kp_pc = "kpis" => KpAllWindows

\* no row of the CSV has a count below zero
KpNonNegative == \A i \in 1..Len(kp_rows) : to_numeric(kp_rows[i].qtd) >= 0

\* With counts that are not negative the KPI values are as stated.
C11_NonNegative == (kp_pc = "kpis" /\ KpNonNegative) => KpAllWindows

\* The KPI row of the upload (10, sucesso), (5, erro), (5, erro).
C11_Scenario == kp_pc = "kpis" /\ KpScenario

\* A window whose counts sum to 0 has KPI values.
C11_ZeroTotal ==
    /\ kp_pc = "kpis" /\ KpNonNegative
    /\ \E n \in WindowDays : ~kp_out[n].empty /\ kp_out[n].total = 0

\* a run that loaded its dataset, and the dataset has no record
EmptyPass == pc \notin {"idle", "stopped_error"} /\ df = {}

\* no reference day, window, KPI or aggregation of this run exists
NothingComputed ==
    /\ max_day = NoDay
    /\ window_dfs = NoWindows
    /\ kpis = NoKpis
    /\ status_aggs = NoWindows
    /\ error_figs = NoCharts

\* the run was stopped after its message: with no file and nothing stored
\* the information, after an upload without a valid row the warning
InformationalStop ==
    \/ pc = "stopped_no_data" /\ msg = "info" /\ uploaded.none /\ store = {}
    \/ pc = "stopped_no_dates" /\ msg = "no_dates" /\ ~uploaded.none

\* C12: a run whose loaded dataset is empty, nothing being stored or the
\* upload having no valid row, computes no reference day, window, KPI or
\* aggregation and never faults: it is in the upload section or the sidebar
\* or stopped after its message, and it does get to that stop.
C12_EmptyDataset ==
    /\ [](EmptyPass =>
            /\ NothingComputed
            /\ pc \in {"loaded", "classified"} \/ InformationalStop)
    /\ (EmptyPass ~> InformationalStop)

\* An upload with rows, none of them with a valid date, was persisted and
\* the run stopped on the warning.
C12_Witness ==
    /\ pc = "stopped_no_dates"
    /\ df = {}
    /\ persisted
    /\ Len(uploaded.rows) > 0
    /\ store = {}
====
